---- MODULE Spec2Model ----
(***************************************************************************)
(* Model of the todo-highlight extension (src/src/extension.ts).           *)
(*                                                                         *)
(* Text is a sequence of one-character strings; offsets are 0-based as in  *)
(* JavaScript, so the character at offset p of text is text[p + 1].        *)
(* A regex fragment of the configuration is an alternation of sequences of *)
(* quantified character classes, or a fragment that does not compile.      *)
(***************************************************************************)
EXTENDS Integers, Sequences, FiniteSets, TLC

\* ------------------------------------------------------------------ bounds

\* Longest document text the environment produces.
MaxLen == 2
\* Style handles the editor hands out before the model stops reloading.
MaxHandles == 4

\* ------------------------------------------------------------- characters

Alphabet == {"/", "T", "q"}

RECURSIVE StringsUpTo(_)
StringsUpTo(n) ==
    IF n = 0 THEN {<<>>}
    ELSE LET shorter == StringsUpTo(n - 1)
         IN  shorter \cup {Append(s, c) : s \in {t \in shorter : Len(t) = n - 1}, c \in Alphabet}

Texts == StringsUpTo(MaxLen)

\* ------------------------------------------------------- regular expressions

\* One quantified character class, greedy: at least min characters of cs, and
\* at most one unless many.  [c] is (1, FALSE), c? (0, FALSE), c* (0, TRUE).
Atom(cs, min, many) == [cs |-> cs, min |-> min, many |-> many]
Lit(c)  == Atom({c}, 1, FALSE)
Opt(c)  == Atom({c}, 0, FALSE)
Star(cs) == Atom(cs, 0, TRUE)

\* A fragment that compiles: its alternatives, in order.
Fragment(alts) == [ok |-> TRUE, alts |-> alts]
\* A fragment that makes new RegExp throw a SyntaxError, such as "(".
Malformed == [ok |-> FALSE, alts |-> <<>>]

\* Array.prototype.join("|") over fragments: the alternatives of all of them in
\* order; the join of an empty array is the empty pattern, one empty alternative.
RECURSIVE ConcatAlts(_)
ConcatAlts(frags) ==
    IF frags = <<>> THEN <<>>
    ELSE Head(frags).alts \o ConcatAlts(Tail(frags))

Join(frags) ==
    IF frags = <<>> THEN Fragment(<< <<>> >>)
    ELSE [ok |-> \A i \in 1..Len(frags) : frags[i].ok, alts |-> ConcatAlts(frags)]

\* `a|b` written in a template string: both sides' alternatives.
Alternate(a, b) == [ok |-> a.ok /\ b.ok, alts |-> a.alts \o b.alts]

NoGroup == "(?:)"

\* The alternatives of a pattern wrapped in the group grp.
Tagged(grp, alts) == [i \in 1..Len(alts) |-> [grp |-> grp, atoms |-> alts[i]]]

\* The number of characters of cs at offset p and after; at most one unless many.
RECURSIVE Run(_, _, _, _)
Run(cs, many, text, p) ==
    IF p >= Len(text) \/ text[p + 1] \notin cs THEN 0
    ELSE IF many THEN 1 + Run(cs, many, text, p + 1)
    ELSE 1

\* Backtracking match of atoms[i..] at offset p: the end offset, or -1.
RECURSIVE MatchAtoms(_, _, _, _)
RECURSIVE TryCount(_, _, _, _, _)
MatchAtoms(atoms, i, text, p) ==
    IF i > Len(atoms) THEN p
    ELSE TryCount(atoms, i, text, p, Run(atoms[i].cs, atoms[i].many, text, p))

TryCount(atoms, i, text, p, k) ==
    IF k < atoms[i].min THEN -1
    ELSE LET rest == MatchAtoms(atoms, i + 1, text, p + k)
         IN  IF rest # -1 THEN rest ELSE TryCount(atoms, i, text, p, k - 1)

\* The first alternative, from the j-th on, that matches at offset p; 0 if none.
RECURSIVE FirstAlt(_, _, _, _)
FirstAlt(alts, j, text, p) ==
    IF j > Len(alts) THEN 0
    ELSE IF MatchAtoms(alts[j].atoms, 1, text, p) # -1 THEN j
    ELSE FirstAlt(alts, j + 1, text, p)

\* The leftmost offset >= p at which some alternative matches; -1 if none.
RECURSIVE FirstPos(_, _, _)
FirstPos(alts, text, p) ==
    IF p > Len(text) THEN -1
    ELSE IF FirstAlt(alts, 1, text, p) # 0 THEN p
    ELSE FirstPos(alts, text, p + 1)

NoMatch == [found |-> FALSE]

\* RegExp.prototype.exec of a global regex on text: the match (offset, length,
\* the group of the alternative that matched) and the lastIndex it leaves.  A
\* failed search resets lastIndex to 0; a match leaves lastIndex at its end, so
\* an empty match leaves lastIndex where the match was found.
exec(regex, text) ==
    LET p == IF regex.lastIndex > Len(text) THEN -1
             ELSE FirstPos(regex.alts, text, regex.lastIndex)
    IN  IF p = -1 THEN [match |-> NoMatch, lastIndex |-> 0]
        ELSE LET j == FirstAlt(regex.alts, 1, text, p)
                 e == MatchAtoms(regex.alts[j].atoms, 1, text, p)
             IN  [match |-> [found |-> TRUE, index |-> p, length |-> e - p,
                             grp |-> regex.alts[j].grp],
                  lastIndex |-> e]

\* substring that stops one character early (`text.substring(p, p + n - 1)`).
Substring_DropLast(text, p, n) == SubSeq(text, p + 1, p + n - 1)

\* text.substring(p, p + n)
Substring(text, p, n) == SubSeq(text, p + 1, p + n)

\* ------------------------------------------------------------ configuration

Undefined == [defined |-> FALSE]
Defined(v) == [defined |-> TRUE, value |-> v]

\* Comment grammar of the model: a line comment is a slash and the T's after
\* it, a block comment is qT, a string literal is q...q.
LineComment  == Fragment(<< <<Lit("/"), Star({"T"})>> >>)
BlockComment == Fragment(<< <<Lit("q"), Lit("T")>> >>)
StringLiteral == Fragment(<< <<Lit("q"), Star(Alphabet \ {"q"}), Lit("q")>> >>)

Language(ids, line, block, skipped) ==
    [languageIds |-> ids, lineComments |-> line, blockComments |-> block,
     skippedBlocks |-> skipped,
     combinedCommentRegex |-> Undefined, combinedAnnotationRegex |-> Undefined]

LangFull     == Language({"ts"}, <<LineComment>>, <<BlockComment>>, <<StringLiteral>>)
LangNoSkip   == Language({"ts"}, <<LineComment>>, <<BlockComment>>, <<>>)
LangLineOnly == Language({"ts", "plaintext"}, <<LineComment>>, <<>>, <<>>)
LangBad      == Language({"plaintext"}, <<Malformed>>, <<>>, <<>>)

\* Values of the `languages` section of the configuration.
LanguageConfigs ==
    {Undefined, Defined(<<>>), Defined(<<LangNoSkip>>),
     Defined(<<LangLineOnly, LangFull>>), Defined(<<LangLineOnly, LangBad>>)}

AnnotationRenderOptions(name, pattern, isMarkdown) ==
    [name |-> name, pattern |-> pattern, isMarkdown |-> isMarkdown]

Todo    == AnnotationRenderOptions("TODO", Fragment(<< <<Lit("T")>> >>), TRUE)
TodoTwo == AnnotationRenderOptions("TODO", Fragment(<< <<Lit("T"), Lit("T")>> >>), FALSE)
Mark    == AnnotationRenderOptions("MARK", Fragment(<< <<Opt("/")>> >>), FALSE)
Broken  == AnnotationRenderOptions("BROKEN", Malformed, FALSE)

\* Values of the `annotations` section of the configuration.
AnnotationConfigs ==
    {Undefined, Defined(<<>>), Defined(<<Todo, Mark>>),
     Defined(<<Todo, TodoTwo>>), Defined(<<Todo, Broken>>)}

\* The language of the document of each visible editor, in the order of
\* visibleTextEditors.  The second document is never edited.
LanguageIdOf == <<"ts", "plaintext">>
NumEditors == Len(LanguageIdOf)
ReadOnlyText == <<"/", "T">>

\* -------------------------------------------------------------------- state

VARIABLES
    configuration,  \* the "todo" configuration: its annotations and languages sections
    editors,        \* editors[e]: the text of the document of visible editor e
    instance,       \* GlobalState.instance
    arrays,         \* the heap of DecorationOptions arrays, by reference
    nextHandle,     \* the next TextEditorDecorationType the editor creates
    live,           \* the decoration types created and not disposed
    pc,             \* where the running handler is; "idle" between events
    event,          \* the event being handled, or handled last
    error,          \* the error that ended the last handler, or "none"
    queue,          \* decorateVisibleEditors: the editors still to decorate
    editor,         \* decorate: the editor being decorated
    langIdx,        \* decorate: the index of info in globalState.languages
    body,           \* findAnnotations: its text argument
    offset,         \* findAnnotations: its offset argument
    commentIters,   \* iterations of the loop of the running findComments
    annotIters,     \* iterations of the loop of the running findAnnotations
    callStarts,     \* start offsets appended by the running findAnnotations
    pushed,         \* the (kind, decoration) pairs pushed during the running decorate
    sink,           \* the setDecorations calls of the running pass, in order
    scanned,        \* the editors whose decorate returned in the running pass
    painted         \* painted[e]: the lists of the last scan of e's document, while
                    \* neither the document nor the registry has changed since

vars == <<configuration, editors, instance, arrays, nextHandle, live, pc, event, error,
          queue, editor, langIdx, body, offset, commentIters, annotIters, callStarts,
          pushed, sink, scanned, painted>>

scanVars == <<queue, editor, langIdx, body, offset, commentIters, annotIters,
              callStarts, pushed>>

\* ----------------------------------------------------------------- helpers

\* A reference no array of the heap uses.
Fresh(used) == CHOOSE r \in 1..(Cardinality(used) + 1) : r \notin used

\* Object.values(dict) keeps insertion order; a dictionary is the sequence of
\* its entries, each with a distinct name.
RECURSIVE IndexOf(_, _, _)
IndexOf(dict, key, i) ==
    IF i > Len(dict) THEN 0
    ELSE IF dict[i].name = key THEN i
    ELSE IndexOf(dict, key, i + 1)

\* dict[key] = entry: a new key goes last, an existing key keeps its place.
DictSet(dict, key, entry) ==
    LET i == IndexOf(dict, key, 1)
    IN  IF i = 0 THEN Append(dict, entry) ELSE [dict EXCEPT ![i] = entry]

\* The arrays some annotation or some setDecorations call still refers to.
Referenced(annotations, calls) ==
    {annotations[i].options : i \in DOMAIN annotations} \cup {calls[i].options : i \in DOMAIN calls}

Collect(heap, annotations, calls) ==
    [r \in (DOMAIN heap) \cap Referenced(annotations, calls) |-> heap[r]]

\* --------------------------------------------------------------- GlobalState

DecorationType(name, pattern, type, isMarkdown, options) ==
    [name |-> name, pattern |-> pattern, type |-> type, isMarkdown |-> isMarkdown,
     options |-> options]

RegExp(alts) == [defined |-> TRUE, alts |-> alts, lastIndex |-> 0]

\* AnnotationAlts with the annotations taken last to first.
RECURSIVE AnnotationAlts_Reversed(_)
AnnotationAlts_Reversed(annotations) ==
    IF annotations = <<>> THEN <<>>
    ELSE AnnotationAlts_Reversed(Tail(annotations))
         \o Tagged(Head(annotations).name, Head(annotations).pattern.alts)

\* The `(?<name>pattern)` of every annotation, joined with "|".
RECURSIVE AnnotationAlts(_)
AnnotationAlts(annotations) ==
    IF annotations = <<>> THEN <<>>
    ELSE Tagged(Head(annotations).name, Head(annotations).pattern.alts)
         \o AnnotationAlts(Tail(annotations))

getAnnotationRegex(info, annotations) ==
    IF annotations = <<>> THEN [ok |-> TRUE, regex |-> RegExp(Tagged(NoGroup, << <<>> >>))]
    ELSE [ok |-> \A i \in 1..Len(annotations) : annotations[i].pattern.ok,
          regex |-> RegExp(AnnotationAlts(annotations))]

getCommentRegex(info) ==
    LET lineComments  == Join(info.lineComments)
        blockComments == Join(info.blockComments)
        skippedBlocks == Join(info.skippedBlocks)
        bodyPattern   == Alternate(lineComments, blockComments)
    IN  [ok |-> bodyPattern.ok /\ skippedBlocks.ok,
         regex |-> RegExp(Tagged("body", bodyPattern.alts)
                          \o Tagged(NoGroup, skippedBlocks.alts))]

\* The loop that compiles the matchers of every language, in order; new RegExp
\* throws at the first pattern that does not compile and leaves the rest as is.
RECURSIVE CompileLanguages(_, _, _)
CompileLanguages(languages, i, annotations) ==
    IF i > Len(languages) THEN [languages |-> languages, threw |-> FALSE]
    ELSE LET comment    == getCommentRegex(languages[i])
             annotation == getAnnotationRegex(languages[i], annotations)
         IN  IF ~comment.ok THEN [languages |-> languages, threw |-> TRUE]
             ELSE IF ~annotation.ok
             THEN [languages |-> [languages EXCEPT ![i].combinedCommentRegex = comment.regex],
                   threw |-> TRUE]
             ELSE CompileLanguages(
                      [languages EXCEPT ![i].combinedCommentRegex = comment.regex,
                                        ![i].combinedAnnotationRegex = annotation.regex],
                      i + 1, annotations)

\* The loop over annotationOptions: one createTextEditorDecorationType and one
\* DecorationType, with its own empty options array, per entry.
RECURSIVE BuildAnnotations(_, _, _, _, _)
BuildAnnotations(options, i, handle, dict, heap) ==
    IF i > Len(options) THEN [annotations |-> dict, arrays |-> heap]
    ELSE LET ref == Fresh(DOMAIN heap)
             decorationType == DecorationType(options[i].name, options[i].pattern, handle,
                                              options[i].isMarkdown, ref)
         IN  BuildAnnotations(options, i + 1, handle + 1,
                              DictSet(dict, options[i].name, decorationType),
                              heap @@ (ref :> <<>>))

\* The decoration types of the annotations of the instance, if there is one.
Handles(inst) ==
    IF inst.defined THEN {inst.annotations[i].type : i \in DOMAIN inst.annotations} ELSE {}

\* ------------------------------------------------------------------- reload

NoScans == [e \in 1..NumEditors |-> Undefined]
AllEditors == [e \in 1..NumEditors |-> e]

Annotations(inst) == IF inst.defined THEN inst.annotations ELSE <<>>

\* reload with the decoration types of the instance disposed before the
\* configuration is looked at.
reload_DisposeFirst(cfg) ==
    LET annotationOptions == IF cfg.annotations.defined THEN cfg.annotations.value ELSE <<>>
        built == BuildAnnotations(annotationOptions, 1, nextHandle, <<>>, <<>>)
        compiled == CompileLanguages(cfg.languages.value, 1, built.annotations)
    IN  IF ~cfg.annotations.defined \/ ~cfg.languages.defined
        THEN /\ pc' = "return"
             /\ error' = "none"
             /\ live' = live \ Handles(instance)
             /\ UNCHANGED <<instance, arrays, nextHandle, queue, painted>>
        ELSE /\ nextHandle + Len(annotationOptions) <= MaxHandles + 1
             /\ live' = (live \ Handles(instance))
                        \cup {nextHandle + i - 1 : i \in 1..Len(annotationOptions)}
             /\ nextHandle' = nextHandle + Len(annotationOptions)
             /\ instance' = [defined |-> TRUE, languages |-> compiled.languages,
                             annotations |-> built.annotations]
             /\ arrays' = Collect(built.arrays, built.annotations, <<>>)
             /\ painted' = NoScans
             /\ IF compiled.threw
                THEN /\ pc' = "return"
                     /\ error' = "SyntaxError"
                     /\ UNCHANGED queue
                ELSE /\ pc' = "decorateVisibleEditors"
                     /\ error' = "none"
                     /\ queue' = AllEditors

\* reload that publishes the new instance only after every regex compiled: if
\* new RegExp throws, the old instance stays, its decoration types disposed.
reload_PublishLate(cfg) ==
    IF ~cfg.annotations.defined \/ ~cfg.languages.defined
    THEN /\ pc' = "return"
         /\ error' = "none"
         /\ UNCHANGED <<instance, arrays, nextHandle, live, queue, painted>>
    ELSE LET annotationOptions == cfg.annotations.value
             built == BuildAnnotations(annotationOptions, 1, nextHandle, <<>>, <<>>)
             compiled == CompileLanguages(cfg.languages.value, 1, built.annotations)
         IN  /\ nextHandle + Len(annotationOptions) <= MaxHandles + 1
             /\ live' = (live \ Handles(instance))
                        \cup {nextHandle + i - 1 : i \in 1..Len(annotationOptions)}
             /\ nextHandle' = nextHandle + Len(annotationOptions)
             /\ painted' = NoScans
             /\ IF compiled.threw
                THEN /\ pc' = "return"
                     /\ error' = "SyntaxError"
                     /\ UNCHANGED <<instance, arrays, queue>>
                ELSE /\ pc' = "decorateVisibleEditors"
                     /\ error' = "none"
                     /\ queue' = AllEditors
                     /\ instance' = [defined |-> TRUE, languages |-> compiled.languages,
                                     annotations |-> built.annotations]
                     /\ arrays' = Collect(built.arrays, built.annotations, <<>>)

\* GlobalState.reload on the configuration cfg, up to its call of
\* decorateVisibleEditors.  An error thrown by new RegExp ends the handler
\* with the instance already replaced.
reload(cfg) ==
    IF ~cfg.annotations.defined \/ ~cfg.languages.defined
    THEN /\ pc' = "return"
         /\ error' = "none"
         /\ UNCHANGED <<instance, arrays, nextHandle, live, queue, painted>>
    ELSE LET annotationOptions == cfg.annotations.value
             built == BuildAnnotations(annotationOptions, 1, nextHandle, <<>>, <<>>)
             compiled == CompileLanguages(cfg.languages.value, 1, built.annotations)
         IN  /\ nextHandle + Len(annotationOptions) <= MaxHandles + 1
             /\ live' = (live \ Handles(instance))
                        \cup {nextHandle + i - 1 : i \in 1..Len(annotationOptions)}
             /\ nextHandle' = nextHandle + Len(annotationOptions)
             /\ instance' = [defined |-> TRUE, languages |-> compiled.languages,
                             annotations |-> built.annotations]
             /\ arrays' = Collect(built.arrays, built.annotations, <<>>)
             /\ painted' = NoScans
             /\ IF compiled.threw
                THEN /\ pc' = "return"
                     /\ error' = "SyntaxError"
                     /\ UNCHANGED queue
                ELSE /\ pc' = "decorateVisibleEditors"
                     /\ error' = "none"
                     /\ queue' = AllEditors

\* activate: the first reload; the three subscriptions are made only if it returns.
Activate ==
    /\ pc = "init"
    /\ event' = "activate"
    /\ reload(configuration)
    /\ UNCHANGED <<configuration, editors, editor, langIdx, body, offset, commentIters,
                   annotIters, callStarts, pushed, sink, scanned>>

\* onDidChangeConfiguration, after the configuration changed to (a, l).
ConfigurationChanged(a, l) ==
    /\ pc = "idle"
    /\ event' = "configurationChanged"
    /\ configuration' = [annotations |-> a, languages |-> l]
    /\ reload(configuration')
    /\ UNCHANGED <<editors, editor, langIdx, body, offset, commentIters,
                   annotIters, callStarts, pushed, sink, scanned>>

\* onDidChangeTextDocument, after the text of the first editor changed.
TextChanged(text) ==
    /\ pc = "idle"
    /\ text # editors[1]
    /\ event' = "textChanged"
    /\ editors' = [editors EXCEPT ![1] = text]
    /\ painted' = [painted EXCEPT ![1] = Undefined]
    /\ pc' = "decorateVisibleEditors"
    /\ queue' = AllEditors
    /\ UNCHANGED <<configuration, instance, arrays, nextHandle, live, error, editor,
                   langIdx, body, offset, commentIters, annotIters, callStarts, pushed,
                   sink, scanned>>

\* onDidChangeActiveTextEditor
ActiveEditorChanged ==
    /\ pc = "idle"
    /\ event' = "activeEditorChanged"
    /\ pc' = "decorateVisibleEditors"
    /\ queue' = AllEditors
    /\ UNCHANGED <<configuration, editors, instance, arrays, nextHandle, live, error,
                   editor, langIdx, body, offset, commentIters, annotIters, callStarts,
                   pushed, sink, scanned, painted>>

\* The handler returns to the event loop.  If activate threw, nothing was
\* subscribed and no event is ever handled.  The records of the pass are dropped
\* and the arrays nothing refers to any more are collected.
Return ==
    /\ pc = "return"
    /\ pc' = IF event = "activate" /\ error # "none" THEN "dead" ELSE "idle"
    /\ event' = "none"
    /\ error' = "none"
    /\ sink' = <<>>
    /\ scanned' = {}
    /\ pushed' = <<>>
    /\ queue' = <<>>
    /\ editor' = 1
    /\ langIdx' = 1
    /\ arrays' = Collect(arrays, Annotations(instance), <<>>)
    /\ UNCHANGED <<configuration, editors, instance, nextHandle, live, body, offset,
                   commentIters, annotIters, callStarts, painted>>

\* --------------------------------------------------------------------- scan

\* document.positionAt: the position of an offset, kept inside the document.
\* positionAt is one-to-one on the offsets 0..Len(text), so a position is
\* written as the offset it stands for.
positionAt(text, o) == IF o < 0 THEN 0 ELSE IF o > Len(text) THEN Len(text) ELSE o

\* ResetOptions that empties the array of every annotation in place
\* (`value.options.length = 0`).
ResetOptions_InPlace(annotations, i, heap, calls) ==
    [annotations |-> annotations,
     arrays |-> [r \in DOMAIN heap |->
                    IF \E k \in i..Len(annotations) : annotations[k].options = r
                    THEN <<>> ELSE heap[r]]]

\* ResetOptions that leaves the options of every annotation as they are.
ResetOptions_None(annotations, i, heap, calls) ==
    [annotations |-> annotations, arrays |-> heap]

\* The first loop of decorate: every annotation gets a new empty options array.
RECURSIVE ResetOptions(_, _, _, _)
ResetOptions(annotations, i, heap, calls) ==
    IF i > Len(annotations) THEN [annotations |-> annotations, arrays |-> heap]
    ELSE LET ref == Fresh((DOMAIN heap) \cup Referenced(annotations, calls))
         IN  ResetOptions([annotations EXCEPT ![i].options = ref], i + 1,
                          heap @@ (ref :> <<>>), calls)

\* Flush that makes no call for an annotation whose options are empty.
RECURSIVE Flush_SkipEmpty(_, _, _, _)
Flush_SkipEmpty(annotations, i, e, heap) ==
    IF i > Len(annotations) THEN <<>>
    ELSE (IF heap[annotations[i].options] = <<>> THEN <<>>
          ELSE <<[editor |-> e, type |-> annotations[i].type, name |-> annotations[i].name,
                  options |-> annotations[i].options,
                  list |-> heap[annotations[i].options]]>>)
         \o Flush_SkipEmpty(annotations, i + 1, e, heap)

\* The last loop of decorate: one setDecorations per annotation, in order.  A
\* call keeps the array it was given and, for reference, what the array held.
RECURSIVE Flush(_, _, _, _)
Flush(annotations, i, e, heap) ==
    IF i > Len(annotations) THEN <<>>
    ELSE <<[editor |-> e, type |-> annotations[i].type, name |-> annotations[i].name,
            options |-> annotations[i].options, list |-> heap[annotations[i].options]]>>
         \o Flush(annotations, i + 1, e, heap)

\* decorateVisibleEditors: the next editor, or the end of the pass.  decorate
\* reads globalState.annotations first and throws if there is no instance.
NextEditor ==
    /\ pc = "decorateVisibleEditors"
    /\ IF queue = <<>>
       THEN /\ pc' = "return"
            /\ UNCHANGED <<instance, arrays, error, queue, editor, langIdx, pushed>>
       ELSE IF ~instance.defined
       THEN /\ pc' = "return"
            /\ error' = "TypeError"
            /\ UNCHANGED <<instance, arrays, queue, editor, langIdx, pushed>>
       ELSE LET reset == ResetOptions(instance.annotations, 1, arrays, sink)
            IN  /\ pc' = "decorate"
                /\ editor' = Head(queue)
                /\ queue' = Tail(queue)
                /\ langIdx' = 1
                /\ pushed' = <<>>
                /\ instance' = [instance EXCEPT !.annotations = reset.annotations]
                /\ arrays' = Collect(reset.arrays, reset.annotations, sink)
                /\ UNCHANGED error
    /\ UNCHANGED <<configuration, editors, nextHandle, live, event, body, offset,
                   commentIters, annotIters, callStarts, sink, scanned, painted>>

\* decorate: the loop over globalState.languages, then the setDecorations loop.
NextLanguage ==
    /\ pc = "decorate"
    /\ IF langIdx <= Len(instance.languages)
       THEN LET info == instance.languages[langIdx]
            IN  /\ IF LanguageIdOf[editor] \in info.languageIds
                      /\ info.combinedCommentRegex.defined
                   THEN /\ pc' = "findComments"
                        /\ UNCHANGED langIdx
                   ELSE /\ langIdx' = langIdx + 1
                        /\ UNCHANGED pc
                /\ UNCHANGED <<sink, scanned, painted>>
       ELSE /\ pc' = "decorateVisibleEditors"
            /\ sink' = sink \o Flush(instance.annotations, 1, editor, arrays)
            /\ scanned' = scanned \cup {editor}
            /\ painted' = [painted EXCEPT ![editor] =
                              Defined([i \in 1..Len(instance.annotations) |->
                                          arrays[instance.annotations[i].options]])]
            /\ UNCHANGED langIdx
    /\ UNCHANGED <<configuration, editors, instance, arrays, nextHandle, live, event,
                   error, queue, editor, body, offset, commentIters, annotIters,
                   callStarts, pushed>>

\* match.groups?.body: the text of the body group, if the match came through it.
commentBody(text, match) ==
    IF match.grp = "body" THEN Defined(Substring(text, match.index, match.length))
    ELSE Undefined

\* FindCommentsStep that leaves the loop at an empty body (`break`) where the
\* code moves the cursor on.
FindCommentsStep_BreakOnEmpty ==
    /\ pc = "findComments"
    /\ commentIters <= Len(editors[editor]) + 1
    /\ LET text  == editors[editor]
           info  == instance.languages[langIdx]
           r     == exec(info.combinedCommentRegex, text)
           match == r.match
       IN  IF ~match.found
           THEN \* the loop ends: findComments returns to decorate
                /\ instance' = [instance EXCEPT
                       !.languages[langIdx].combinedCommentRegex.lastIndex = r.lastIndex]
                /\ pc' = "decorate"
                /\ langIdx' = langIdx + 1
                /\ commentIters' = 0
                /\ UNCHANGED <<body, offset>>
           ELSE /\ commentIters' = IF commentBody(text, match).defined
                                       /\ commentBody(text, match).value = <<>>
                                    THEN 0 ELSE commentIters + 1
                /\ IF ~commentBody(text, match).defined
                   THEN \* body === undefined
                        /\ instance' = [instance EXCEPT
                               !.languages[langIdx].combinedCommentRegex.lastIndex = r.lastIndex]
                        /\ UNCHANGED <<pc, body, offset>>
                   ELSE IF commentBody(text, match).value = <<>>
                   THEN \* body === ''
                        /\ instance' = [instance EXCEPT
                               !.languages[langIdx].combinedCommentRegex.lastIndex = r.lastIndex]
                        /\ pc' = "decorate"
                        /\ UNCHANGED <<body, offset>>
                   ELSE \* findAnnotations(document, info, body, match.index)
                        /\ instance' = [instance EXCEPT
                               !.languages[langIdx].combinedCommentRegex.lastIndex = r.lastIndex]
                        /\ IF info.combinedAnnotationRegex.defined
                           THEN /\ pc' = "findAnnotations"
                                /\ body' = commentBody(text, match).value
                                /\ offset' = match.index
                           ELSE UNCHANGED <<pc, body, offset>>
                /\ langIdx' = IF commentBody(text, match).defined
                                  /\ commentBody(text, match).value = <<>>
                               THEN langIdx + 1 ELSE langIdx
    /\ UNCHANGED <<configuration, editors, arrays, nextHandle, live, event, error,
                   queue, editor, annotIters, callStarts, pushed, sink, scanned, painted>>

\* findComments: one evaluation of the loop condition and, on a match, one
\* iteration of the loop.  The loop is cut off after Len(text) + 2 iterations.
FindCommentsStep ==
    /\ pc = "findComments"
    /\ commentIters <= Len(editors[editor]) + 1
    /\ LET text  == editors[editor]
           info  == instance.languages[langIdx]
           r     == exec(info.combinedCommentRegex, text)
           match == r.match
       IN  IF ~match.found
           THEN \* the loop ends: findComments returns to decorate
                /\ instance' = [instance EXCEPT
                       !.languages[langIdx].combinedCommentRegex.lastIndex = r.lastIndex]
                /\ pc' = "decorate"
                /\ langIdx' = langIdx + 1
                /\ commentIters' = 0
                /\ UNCHANGED <<body, offset>>
           ELSE /\ commentIters' = commentIters + 1
                /\ IF ~commentBody(text, match).defined
                   THEN \* body === undefined
                        /\ instance' = [instance EXCEPT
                               !.languages[langIdx].combinedCommentRegex.lastIndex = r.lastIndex]
                        /\ UNCHANGED <<pc, body, offset>>
                   ELSE IF commentBody(text, match).value = <<>>
                   THEN \* body === ''
                        /\ instance' = [instance EXCEPT
                               !.languages[langIdx].combinedCommentRegex.lastIndex =
                                   r.lastIndex + 1]
                        /\ UNCHANGED <<pc, body, offset>>
                   ELSE \* findAnnotations(document, info, body, match.index)
                        /\ instance' = [instance EXCEPT
                               !.languages[langIdx].combinedCommentRegex.lastIndex = r.lastIndex]
                        /\ IF info.combinedAnnotationRegex.defined
                           THEN /\ pc' = "findAnnotations"
                                /\ body' = commentBody(text, match).value
                                /\ offset' = match.index
                           ELSE UNCHANGED <<pc, body, offset>>
                /\ UNCHANGED langIdx
    /\ UNCHANGED <<configuration, editors, arrays, nextHandle, live, event, error,
                   queue, editor, annotIters, callStarts, pushed, sink, scanned, painted>>

\* What one match does to the cursor of the annotation regex, the heap, and the
\* records of what was appended.
AfterExec(r) == [lastIndex |-> r.lastIndex, arrays |-> arrays, pushed |-> pushed,
                 callStarts |-> callStarts]

\* match.groups is defined exactly if the regex has a named group.
HasGroups(regex) == \E j \in 1..Len(regex.alts) : regex.alts[j].grp # NoGroup

\* forEntries without `regex.lastIndex++` for an empty value.
RECURSIVE forEntries_NoAdvance(_, _, _, _)
forEntries_NoAdvance(annotations, k, match, st) ==
    IF k > Len(annotations) THEN st
    ELSE LET annotation == annotations[k]
             value == Substring(body, match.index, match.length)
             start == offset + match.index
             stop  == offset + match.index + match.length
             decoration ==
                 [range |-> [start |-> positionAt(editors[editor], start),
                             stop  |-> positionAt(editors[editor], stop)],
                  hoverMessage |-> IF annotation.isMarkdown THEN Defined(value) ELSE Undefined]
         IN  IF match.grp # annotation.name \/ value = <<>>
             THEN forEntries_NoAdvance(annotations, k + 1, match, st)
             ELSE forEntries_NoAdvance(annotations, k + 1, match,
                             [st EXCEPT
                                 !.arrays[annotation.options] = Append(@, decoration),
                                 !.pushed = Append(@, [name |-> annotation.name,
                                                       decoration |-> decoration]),
                                 !.callStarts = Append(@, start)])

\* forEntries that pushes a decoration for an empty value too, before
\* `regex.lastIndex++`.
RECURSIVE forEntries_PushEmpty(_, _, _, _)
forEntries_PushEmpty(annotations, k, match, st) ==
    IF k > Len(annotations) THEN st
    ELSE LET annotation == annotations[k]
             value == Substring(body, match.index, match.length)
             start == offset + match.index
             stop  == offset + match.index + match.length
             decoration ==
                 [range |-> [start |-> positionAt(editors[editor], start),
                             stop  |-> positionAt(editors[editor], stop)],
                  hoverMessage |-> IF annotation.isMarkdown THEN Defined(value) ELSE Undefined]
         IN  IF match.grp # annotation.name
             THEN forEntries_PushEmpty(annotations, k + 1, match, st)
             ELSE forEntries_PushEmpty(annotations, k + 1, match,
                             [st EXCEPT
                                 !.lastIndex = IF value = <<>> THEN @ + 1 ELSE @,
                                 !.arrays[annotation.options] = Append(@, decoration),
                                 !.pushed = Append(@, [name |-> annotation.name,
                                                       decoration |-> decoration]),
                                 !.callStarts = Append(@, start)])

\* forEntries with start and stop taken in the body, not in the document
\* (`match.index` without `offset`).
RECURSIVE forEntries_NoOffset(_, _, _, _)
forEntries_NoOffset(annotations, k, match, st) ==
    IF k > Len(annotations) THEN st
    ELSE LET annotation == annotations[k]
             value == Substring(body, match.index, match.length)
             start == match.index
             stop  == match.index + match.length
             decoration ==
                 [range |-> [start |-> positionAt(editors[editor], start),
                             stop  |-> positionAt(editors[editor], stop)],
                  hoverMessage |-> IF annotation.isMarkdown THEN Defined(value) ELSE Undefined]
         IN  IF match.grp # annotation.name
             THEN forEntries_NoOffset(annotations, k + 1, match, st)
             ELSE IF value = <<>>
             THEN forEntries_NoOffset(annotations, k + 1, match,
                             [st EXCEPT !.lastIndex = @ + 1])
             ELSE forEntries_NoOffset(annotations, k + 1, match,
                             [st EXCEPT
                                 !.arrays[annotation.options] = Append(@, decoration),
                                 !.pushed = Append(@, [name |-> annotation.name,
                                                       decoration |-> decoration]),
                                 !.callStarts = Append(@, start)])

\* findAnnotations: the loop over Object.entries(annotations) for one match,
\* from the k-th entry on.  groups[key] is defined for the group that matched.
RECURSIVE forEntries(_, _, _, _)
forEntries(annotations, k, match, st) ==
    IF k > Len(annotations) THEN st
    ELSE LET annotation == annotations[k]
             value == Substring(body, match.index, match.length)
             start == offset + match.index
             stop  == offset + match.index + match.length
             decoration ==
                 [range |-> [start |-> positionAt(editors[editor], start),
                             stop  |-> positionAt(editors[editor], stop)],
                  hoverMessage |-> IF annotation.isMarkdown THEN Defined(value) ELSE Undefined]
         IN  IF match.grp # annotation.name
             THEN forEntries(annotations, k + 1, match, st)
             ELSE IF value = <<>>
             THEN forEntries(annotations, k + 1, match,
                             [st EXCEPT !.lastIndex = @ + 1])
             ELSE forEntries(annotations, k + 1, match,
                             [st EXCEPT
                                 !.arrays[annotation.options] = Append(@, decoration),
                                 !.pushed = Append(@, [name |-> annotation.name,
                                                       decoration |-> decoration]),
                                 !.callStarts = Append(@, start)])

\* findAnnotations: one evaluation of the loop condition and, on a match, one
\* iteration of the loop.  The loop is cut off after Len(body) + 2 iterations.
FindAnnotationsStep ==
    /\ pc = "findAnnotations"
    /\ annotIters <= Len(body) + 1
    /\ LET info  == instance.languages[langIdx]
           regex == info.combinedAnnotationRegex
           r     == exec(regex, body)
       IN  IF ~r.match.found
           THEN \* the loop ends: findAnnotations returns to findComments
                /\ instance' = [instance EXCEPT
                       !.languages[langIdx].combinedAnnotationRegex.lastIndex = r.lastIndex]
                /\ pc' = "findComments"
                /\ body' = <<>>
                /\ offset' = 0
                /\ annotIters' = 0
                /\ callStarts' = <<>>
                /\ UNCHANGED <<arrays, pushed>>
           ELSE LET st == IF HasGroups(regex)
                          THEN forEntries(instance.annotations, 1, r.match, AfterExec(r))
                          ELSE AfterExec(r)
                IN  /\ instance' = [instance EXCEPT
                           !.languages[langIdx].combinedAnnotationRegex.lastIndex = st.lastIndex]
                    /\ arrays' = st.arrays
                    /\ pushed' = st.pushed
                    /\ callStarts' = st.callStarts
                    /\ annotIters' = annotIters + 1
                    /\ UNCHANGED <<pc, body, offset>>
    /\ UNCHANGED <<configuration, editors, nextHandle, live, event, error, queue,
                   editor, langIdx, commentIters, sink, scanned, painted>>

\* ------------------------------------------------------------ specification

Init ==
    /\ configuration \in [annotations : AnnotationConfigs, languages : LanguageConfigs]
    /\ editors \in {[e \in 1..NumEditors |-> IF e = 1 THEN text ELSE ReadOnlyText] :
                       text \in Texts}
    /\ instance = Undefined
    /\ arrays = <<>>
    /\ nextHandle = 1
    /\ live = {}
    /\ pc = "init"
    /\ event = "none"
    /\ error = "none"
    /\ queue = <<>>
    /\ editor = 1
    /\ langIdx = 1
    /\ body = <<>>
    /\ offset = 0
    /\ commentIters = 0
    /\ annotIters = 0
    /\ callStarts = <<>>
    /\ pushed = <<>>
    /\ sink = <<>>
    /\ scanned = {}
    /\ painted = NoScans

Next ==
    \/ Activate
    \/ \E a \in AnnotationConfigs, l \in LanguageConfigs : ConfigurationChanged(a, l)
    \/ \E text \in Texts : TextChanged(text)
    \/ ActiveEditorChanged
    \/ NextEditor
    \/ NextLanguage
    \/ FindCommentsStep
    \/ FindAnnotationsStep
    \/ Return

Spec == Init /\ [][Next]_vars

\* ------------------------------------------------------------------ examples

\* The documents of the examples: `hello // TODO: fix this\nworld`,
\* `// TODO "// FAKE"`, `"// FAKE" // TODO`, `a // FIXME TODO x` and `"// TODO"`.
HelloTodo ==
    <<"h", "e", "l", "l", "o", " ", "/", "/", " ", "T", "O", "D", "O", ":", " ", "f",
      "i", "x", " ", "t", "h", "i", "s", "\n", "w", "o", "r", "l", "d">>
TodoThenQuoted ==
    <<"/", "/", " ", "T", "O", "D", "O", " ", "\"", "/", "/", " ", "F", "A", "K", "E",
      "\"">>
QuotedThenTodo ==
    <<"\"", "/", "/", " ", "F", "A", "K", "E", "\"", " ", "/", "/", " ", "T", "O", "D",
      "O">>
FixmeThenTodo ==
    <<"a", " ", "/", "/", " ", "F", "I", "X", "M", "E", " ", "T", "O", "D", "O", " ",
      "x">>

QuotedTodo ==
    <<"\"", "/", "/", " ", "T", "O", "D", "O", "\"">>

ExampleTexts == {HelloTodo, TodoThenQuoted, QuotedThenTodo, FixmeThenTodo, QuotedTodo}

\* Every character of a document, the characters `.` matches and those `\s` does.
AnyChar == Alphabet \cup UNION {{t[i] : i \in 1..Len(t)} : t \in ExampleTexts} \cup {"*", ":"}
Dot == AnyChar \ {"\n"}
WhiteSpace == {" ", "\n"}

RECURSIVE Word(_)
Word(cs) == IF cs = <<>> THEN <<>> ELSE <<Lit(Head(cs))>> \o Word(Tail(cs))

\* `//.*`, `/\*[^*]*\*/` and `"[^"]*"`
SlashSlash   == Fragment(<< <<Lit("/"), Lit("/"), Star(Dot)>> >>)
SlashStar    == Fragment(<< <<Lit("/"), Lit("*"), Star(AnyChar \ {"*"}), Lit("*"), Lit("/")>> >>)
DoubleQuoted == Fragment(<< <<Lit("\""), Star(AnyChar \ {"\""}), Lit("\"")>> >>)

LangPlaintext == Language({"plaintext"}, <<SlashSlash>>, <<>>, <<>>)
LangCLike     == Language({"plaintext"}, <<SlashSlash>>, <<SlashStar>>, <<DoubleQuoted>>)
LangLineSkip  == Language({"plaintext"}, <<SlashSlash>>, <<>>, <<DoubleQuoted>>)

\* `TODO:?\s*(?<rest>.*)`; the code never reads the group rest.  `FIXME`, `FIX`.
TodoRest == AnnotationRenderOptions("TODO",
                Fragment(<< Word(<<"T", "O", "D", "O">>)
                            \o <<Opt(":"), Star(WhiteSpace), Star(Dot)>> >>), FALSE)
Fixme    == AnnotationRenderOptions("FIXME",
                Fragment(<< Word(<<"F", "I", "X", "M", "E">>) >>), TRUE)
Fix      == AnnotationRenderOptions("FIX", Fragment(<< Word(<<"F", "I", "X">>) >>), FALSE)

ExampleConfigurations ==
    [annotations : {Defined(<<TodoRest>>), Defined(<<Fixme, TodoRest>>), Defined(<<Fix, Fixme>>)},
     languages : {Defined(<<LangPlaintext>>), Defined(<<LangCLike>>),
                  Defined(<<LangLineSkip>>)}]

\* The extension is activated with an example configuration while the second
\* visible editor shows an example document; the active editor may change.
InitExamples ==
    /\ configuration \in ExampleConfigurations
    /\ editors \in {[e \in 1..NumEditors |-> IF e = 1 THEN <<>> ELSE text] :
                       text \in ExampleTexts}
    /\ instance = Undefined
    /\ arrays = <<>>
    /\ nextHandle = 1
    /\ live = {}
    /\ pc = "init"
    /\ event = "none"
    /\ error = "none"
    /\ queue = <<>>
    /\ editor = 1
    /\ langIdx = 1
    /\ body = <<>>
    /\ offset = 0
    /\ commentIters = 0
    /\ annotIters = 0
    /\ callStarts = <<>>
    /\ pushed = <<>>
    /\ sink = <<>>
    /\ scanned = {}
    /\ painted = NoScans

NextExamples ==
    \/ Activate
    \/ ActiveEditorChanged
    \/ NextEditor
    \/ NextLanguage
    \/ FindCommentsStep
    \/ FindAnnotationsStep
    \/ Return

SpecExamples == InitExamples /\ [][NextExamples]_vars

\* ------------------------------------------------------------------- claims

\* The regex matches the empty string.
CanMatchEmpty(regex) == FirstAlt(regex.alts, 1, <<>>, 0) # 0

StrictlyIncreasing(seq) == \A i \in 1..(Len(seq) - 1) : seq[i] < seq[i + 1]

\* C1: findComments terminates: the loop of findComments makes at most
\* document length + 1 iterations, whatever the language descriptor, because
\* every zero-length match is followed by the cursor moving forward.
C1_FindCommentsTerminates ==
    pc \in {"findComments", "findAnnotations"} => commentIters <= Len(editors[editor]) + 1

\* C2: with a non-empty set of annotation kinds whose combined expression can
\* match the empty string, the loop of findAnnotations over a body of length N
\* makes at most N + 1 iterations, and the start offsets of the decorations it
\* appends are strictly increasing.
C2_ZeroWidthSafety ==
    (/\ pc = "findAnnotations"
     /\ instance.annotations # <<>>
     /\ CanMatchEmpty(instance.languages[langIdx].combinedAnnotationRegex))
    => /\ annotIters <= Len(body) + 1
       /\ StrictlyIncreasing(callStarts)

\* C2 witness: a call that made all its N + 1 iterations, the last one on an
\* empty match, and appended more than one decoration.
C2_Witness ==
    /\ pc = "findAnnotations"
    /\ instance.annotations # <<>>
    /\ CanMatchEmpty(instance.languages[langIdx].combinedAnnotationRegex)
    /\ annotIters = Len(body) + 1
    /\ instance.languages[langIdx].combinedAnnotationRegex.lastIndex = Len(body) + 1
    /\ Len(callStarts) >= 2

\* C3: with an empty annotation list the scan of a document with a non-empty
\* comment body terminates (the loop of findAnnotations ends within
\* Len(body) + 1 iterations) and nothing is painted.
C3_EmptyAnnotationsTerminate ==
    (instance.defined /\ instance.annotations = <<>>)
    => /\ pc = "findAnnotations" => annotIters <= Len(body) + 1
       /\ sink = <<>>

\* A scan is running: decorate has started and has not returned.
Scanning == pc \in {"decorate", "findComments", "findAnnotations"}

\* The step is a reload: the handler of activate or of a configuration change
\* starts.
ReloadStep == pc \in {"init", "idle"} /\ event' \in {"activate", "configurationChanged"}

SameRegex(a, b) == a.defined /\ b.defined /\ a.alts = b.alts

\* C4: no scan observes a partially rebuilt registry: while decorate runs,
\* every language of the instance has its comment matcher and its annotation
\* matcher, and the annotation matcher is the one of the instance's annotations.
C4_NoPartialRegistry ==
    Scanning =>
        \A i \in 1..Len(instance.languages) :
            LET info == instance.languages[i]
            IN  /\ info.combinedCommentRegex.defined
                /\ info.combinedAnnotationRegex.defined
                /\ SameRegex(info.combinedCommentRegex, getCommentRegex(info).regex)
                /\ SameRegex(info.combinedAnnotationRegex,
                             getAnnotationRegex(info, instance.annotations).regex)

\* C5: a reload that finds the annotations or the languages section undefined
\* changes neither the instance (its kinds, its matchers) nor the heap nor the
\* decoration types created and alive, and raises no error.
C5_MissingConfigIsNoOp ==
    [][(/\ ReloadStep
        /\ (~configuration'.annotations.defined \/ ~configuration'.languages.defined))
       => (/\ UNCHANGED <<instance, arrays, nextHandle, live>>
           /\ error' = "none"
           /\ pc' = "return")]_vars

\* C5 witness: a configuration change to a configuration without its
\* annotations section has been handled while a registry with live decoration
\* types exists.
C5_Witness ==
    /\ pc = "return"
    /\ event = "configurationChanged"
    /\ ~configuration.annotations.defined
    /\ configuration.languages.defined
    /\ instance.defined
    /\ live # {}
    /\ live = Handles(instance)

HasDuplicateNames(section) ==
    /\ section.defined
    /\ \E i, j \in 1..Len(section.value) : i # j /\ section.value[i].name = section.value[j].name

\* C6: a reload whose annotation list has two entries of the same name is
\* rejected: it publishes no registry.
C6_DuplicateNamesRejected ==
    [][(/\ ReloadStep
        /\ configuration'.languages.defined
        /\ HasDuplicateNames(configuration'.annotations))
       => UNCHANGED instance]_vars

\* C7: style handles do not leak: the decoration types created and not
\* disposed are exactly those held by the annotations of the instance.
C7_NoHandleLeak == live = Handles(instance)

\* The setDecorations calls of the running pass for editor e.
CallsOf(e) == SelectSeq(sink, LAMBDA c : c.editor = e)

\* C8: once decorate has returned for an editor, setDecorations has been called
\* for it exactly once per annotation of the instance, in order, with that
\* annotation's decoration type; right after decorate returns the list passed is
\* the annotation's options, which is empty if nothing matched.
C8_EveryKindPainted ==
    /\ \A e \in scanned :
           /\ Len(CallsOf(e)) = Len(instance.annotations)
           /\ \A i \in 1..Len(instance.annotations) :
                  /\ CallsOf(e)[i].type = instance.annotations[i].type
                  /\ CallsOf(e)[i].name = instance.annotations[i].name
    /\ \A e \in 1..NumEditors : e \notin scanned => CallsOf(e) = <<>>
    /\ (pc = "decorateVisibleEditors" /\ editor \in scanned) =>
           \A i \in 1..Len(instance.annotations) :
               /\ CallsOf(editor)[i].options = instance.annotations[i].options
               /\ CallsOf(editor)[i].list = arrays[instance.annotations[i].options]

\* C8 witness: a pass has ended in which an editor whose language no
\* descriptor matches was sent an empty list for every one of two kinds.
C8_Witness ==
    /\ pc = "return"
    /\ scanned = 1..NumEditors
    /\ Len(instance.annotations) = 2
    /\ \A i \in 1..Len(instance.languages) :
           LanguageIdOf[2] \notin instance.languages[i].languageIds
    /\ \A i \in 1..2 : CallsOf(2)[i].list = <<>>

\* The decorations pushed for the kind name during the running decorate.
RECURSIVE PushedFor(_, _)
PushedFor(name, log) ==
    IF log = <<>> THEN <<>>
    ELSE (IF Head(log).name = name THEN <<Head(log).decoration>> ELSE <<>>)
         \o PushedFor(name, Tail(log))

\* C9: the list painted for a kind on a document holds exactly the decorations
\* found in that document during that scan, and a list handed to
\* setDecorations is not changed afterwards, by the scan of the next document
\* or otherwise.
C9_AccumulatorsScoped ==
    /\ (pc = "decorateVisibleEditors" /\ editor \in scanned) =>
           \A i \in 1..Len(CallsOf(editor)) :
               CallsOf(editor)[i].list = PushedFor(CallsOf(editor)[i].name, pushed)
    /\ \A i \in 1..Len(sink) : arrays[sink[i].options] = sink[i].list

\* C9 witness: a pass has ended in which the same kind was painted with
\* different non-empty lists on the two documents.
C9_Witness ==
    /\ pc = "return"
    /\ scanned = 1..NumEditors
    /\ \E i \in 1..Len(instance.annotations) :
           /\ CallsOf(1)[i].list # <<>>
           /\ CallsOf(2)[i].list # <<>>
           /\ CallsOf(1)[i].list # CallsOf(2)[i].list

\* C10: decorate run again on an unchanged document with an unchanged
\* registry hands setDecorations the same lists as the time before.
C10_ScanIdempotent ==
    [][(/\ pc = "decorate"
        /\ pc' = "decorateVisibleEditors"
        /\ painted[editor].defined)
       => painted'[editor] = painted[editor]]_vars

\* C10 witness: decorate returns for the second time on an unchanged document
\* in which it found decorations.
C10_Witness ==
    /\ pc = "decorate"
    /\ langIdx > Len(instance.languages)
    /\ painted[editor].defined
    /\ \E i \in 1..Len(instance.annotations) : painted[editor].value[i] # <<>>

\* The end of the first of the fragments frags that matches at offset p of
\* text, or -1 if none does.
FragmentEnd(frags, text, p) ==
    LET alts == Tagged(NoGroup, ConcatAlts(frags))
        j    == FirstAlt(alts, 1, text, p)
    IN  IF j = 0 THEN -1 ELSE MatchAtoms(alts[j].atoms, 1, text, p)

\* The skipped blocks of text from offset p on, as <<start, end>>, read left
\* to right: a comment or a skipped block begins where one of its patterns
\* matches, and the text after it is read from its end.
RECURSIVE SkippedRanges(_, _, _)
SkippedRanges(info, text, p) ==
    IF p >= Len(text) THEN {}
    ELSE LET c == FragmentEnd(info.lineComments \o info.blockComments, text, p)
             s == FragmentEnd(info.skippedBlocks, text, p)
         IN  IF c > p THEN SkippedRanges(info, text, c)
             ELSE IF s > p THEN {<<p, s>>} \cup SkippedRanges(info, text, s)
             ELSE SkippedRanges(info, text, p + 1)

\* C11: skip suppression: the text passed to findAnnotations never lies
\* entirely inside a skipped block of the document that starts before it.
C11_SkipSuppression ==
    pc = "findAnnotations" =>
        \A r \in SkippedRanges(instance.languages[langIdx], editors[editor], 0) :
            ~(r[1] < offset /\ offset + Len(body) <= r[2])

\* The events the three subscriptions of activate handle.
TriggerEvents == {"textChanged", "activeEditorChanged", "configurationChanged"}

\* The last reload found a section of the configuration undefined and returned.
ReloadSkipped ==
    /\ event = "configurationChanged"
    /\ (~configuration.annotations.defined \/ ~configuration.languages.defined)

\* C12: when the handler of a trigger event returns, decorate has returned for
\* every visible editor and no error ended the handler; a configuration change
\* whose reload found a section undefined is left aside.
C12_EveryEventRescans ==
    (pc = "return" /\ event \in TriggerEvents /\ ~ReloadSkipped)
    => /\ error = "none"
       /\ scanned = 1..NumEditors

\* The occurrences of a pattern in text, as <<start, end>>: the offsets where
\* the pattern alone matches, with the end of the match.  A pattern that
\* matches the empty string occurs at every offset.
OccurrencesOf(pattern, text) ==
    {<<p, FragmentEnd(<<pattern>>, text, p)>> :
        p \in {q \in 0..Len(text) : FragmentEnd(<<pattern>>, text, q) # -1}}

Overlap(r, s) == r[1] < s[2] /\ s[1] < r[2]

\* text holds exactly one occurrence of every annotation, no two overlapping.
OneOccurrenceOfEach(annotations, text) ==
    /\ \A i \in 1..Len(annotations) :
           Cardinality(OccurrencesOf(annotations[i].pattern, text)) = 1
    /\ \A i, j \in 1..Len(annotations) :
           i # j => \A r \in OccurrencesOf(annotations[i].pattern, text),
                       s \in OccurrencesOf(annotations[j].pattern, text) : ~Overlap(r, s)

\* What the running findAnnotations has pushed so far.
PushedByCall == SubSeq(pushed, Len(pushed) - Len(callStarts) + 1, Len(pushed))

\* C13: when findAnnotations returns from a body that holds exactly one
\* occurrence of every kind, no two overlapping, it has appended exactly one
\* decoration per kind, whose range is the occurrence of that kind moved by the
\* offset of the body, and the document text in that range is the text the
\* kind's pattern matched.
C13_Coverage ==
    [][(/\ pc = "findAnnotations"
        /\ pc' = "findComments"
        /\ instance.annotations # <<>>
        /\ OneOccurrenceOfEach(instance.annotations, body))
       => /\ Len(PushedByCall) = Len(instance.annotations)
          /\ \A i \in 1..Len(instance.annotations) :
                 \E n \in 1..Len(PushedByCall) :
                     LET range == PushedByCall[n].decoration.range
                     IN  /\ PushedByCall[n].name = instance.annotations[i].name
                         /\ \E r \in OccurrencesOf(instance.annotations[i].pattern, body) :
                                /\ range = [start |-> offset + r[1], stop |-> offset + r[2]]
                                /\ Substring(editors[editor], range.start,
                                             range.stop - range.start)
                                   = Substring(body, r[1], r[2] - r[1])]_vars

\* C13 witness: findAnnotations is about to return from a body at an offset
\* above 0 that holds one occurrence of each of two kinds, having appended two
\* decorations.
C13_Witness ==
    /\ pc = "findAnnotations"
    /\ Len(instance.annotations) = 2
    /\ OneOccurrenceOfEach(instance.annotations, body)
    /\ offset > 0
    /\ Len(callStarts) = 2
    /\ ~exec(instance.languages[langIdx].combinedAnnotationRegex, body).match.found

\* The end-to-end example: the kind TODO, the descriptor with `//.*` only, and
\* the document `hello // TODO: fix this\nworld` in the second editor.
EndToEndExample ==
    /\ configuration = [annotations |-> Defined(<<TodoRest>>),
                        languages |-> Defined(<<LangPlaintext>>)]
    /\ editors[2] = HelloTodo
    /\ editor = 2

\* `// TODO: fix this` and `TODO: fix this`
HelloTodoComment ==
    <<"/", "/", " ", "T", "O", "D", "O", ":", " ", "f", "i", "x", " ", "t", "h", "i", "s">>
HelloTodoValue ==
    <<"T", "O", "D", "O", ":", " ", "f", "i", "x", " ", "t", "h", "i", "s">>

\* The scan of the example terminates, findAnnotations is called with the body
\* `// TODO: fix this` at offset 6 only, and once decorate has returned exactly
\* one decoration was pushed, for the kind TODO, from offset 9 to offset stop,
\* the text in that range being `TODO: fix this`.
EndToEndOutcome(stop) ==
    EndToEndExample =>
        /\ pc \in {"findComments", "findAnnotations"} =>
               commentIters <= Len(editors[editor]) + 1
        /\ pc = "findAnnotations" =>
               /\ annotIters <= Len(body) + 1
               /\ body = HelloTodoComment
               /\ offset = 6
        /\ (pc \in {"decorateVisibleEditors", "return"} /\ editor \in scanned) =>
               /\ Len(pushed) = 1
               /\ pushed[1].name = "TODO"
               /\ pushed[1].decoration.range = [start |-> 9, stop |-> stop]
               /\ SubSeq(editors[editor], pushed[1].decoration.range.start + 1,
                         pushed[1].decoration.range.stop) = HelloTodoValue

\* C14 as stated: on the end-to-end example the scan terminates with one
\* comment body `// TODO: fix this` at offset 6 and exactly one decoration, of
\* kind TODO, spanning offset 9 to 24, with raw value `TODO: fix this`.
C14_EndToEnd_AsStated == EndToEndOutcome(24)

\* C14: on the end-to-end example the scan terminates with one comment body
\* `// TODO: fix this` at offset 6 and exactly one decoration, of kind TODO,
\* spanning offset 9 to 23 (end exclusive), with raw value `TODO: fix this`.
C14_EndToEnd == EndToEndOutcome(23)

\* C14 witness: the pass over the example has ended, with one decoration.
C14_Witness ==
    /\ EndToEndExample
    /\ pc = "return"
    /\ scanned = 1..NumEditors
    /\ Len(pushed) = 1
    /\ Len(CallsOf(2)) = 1
    /\ Len(CallsOf(2)[1].list) = 1

\* The entries of the annotation list options whose pattern matches at offset
\* p of text, by index.
KindsMatchingAt(options, text, p) ==
    {i \in 1..Len(options) : FragmentEnd(<<options[i].pattern>>, text, p) # -1}

Min(S) == CHOOSE n \in S : \A m \in S : n <= m

\* C15: one iteration of the loop of findAnnotations appends at most one
\* decoration, to the options of one kind only, and that kind is the first
\* entry of the configured annotation list whose pattern matches where the
\* match was found.
C15_FirstKindWins ==
    [][(pc = "findAnnotations" /\ annotIters' = annotIters + 1)
       => LET match   == exec(instance.languages[langIdx].combinedAnnotationRegex,
                              body).match
              options == configuration.annotations.value
          IN  \/ UNCHANGED <<pushed, arrays>>
              \/ /\ Len(pushed') = Len(pushed) + 1
                 /\ KindsMatchingAt(options, body, match.index) # {}
                 /\ LET new  == pushed'[Len(pushed')]
                        kind == options[Min(KindsMatchingAt(options, body, match.index))]
                    IN  /\ new.name = kind.name
                        /\ new.decoration.range.start = offset + match.index
                        /\ \A i \in 1..Len(instance.annotations) :
                               LET ref == instance.annotations[i].options
                               IN  arrays'[ref] =
                                       IF instance.annotations[i].name = kind.name
                                       THEN Append(arrays[ref], new.decoration)
                                       ELSE arrays[ref]]_vars

\* C15 witness: findAnnotations has appended a decoration where the patterns
\* of two kinds match, both on one character or more.
C15_Witness ==
    /\ pc = "findAnnotations"
    /\ callStarts # <<>>
    /\ LET p == callStarts[Len(callStarts)] - offset
       IN  Cardinality({i \in 1..Len(instance.annotations) :
               FragmentEnd(<<instance.annotations[i].pattern>>, body, p) > p}) >= 2

\* C16: the body findAnnotations works on lies inside the document, and every
\* decoration it has appended has a non-empty range inside the body:
\* offset <= start < stop <= offset + Len(body) <= Len(document).
C16_RangeWithinBody ==
    pc = "findAnnotations" =>
        /\ offset + Len(body) <= Len(editors[editor])
        /\ \A n \in 1..Len(PushedByCall) :
               LET range == PushedByCall[n].decoration.range
               IN  /\ offset <= range.start
                   /\ range.start < range.stop
                   /\ range.stop <= offset + Len(body)

\* C16 witness: findAnnotations, called for a body at an offset above 0, has
\* appended a decoration and has then stepped over an empty match at the end
\* of the body.
C16_Witness ==
    /\ pc = "findAnnotations"
    /\ offset > 0
    /\ PushedByCall # <<>>
    /\ instance.languages[langIdx].combinedAnnotationRegex.lastIndex = Len(body) + 1

\* C17: whenever decorate is about to run or is running there is an instance
\* of GlobalState, and no handler ends with a TypeError.
C17_ScanHasRegistry ==
    /\ (Scanning \/ (pc = "decorateVisibleEditors" /\ queue # <<>>)) => instance.defined
    /\ error # "TypeError"

\* C18: every setDecorations call of a pass was made with a decoration type
\* that is not disposed, and while decorate runs no decoration type of the
\* instance is disposed.
C18_NoDisposedHandlePainted ==
    /\ \A i \in 1..Len(sink) : sink[i].type \in live
    /\ Scanning => Handles(instance) \subseteq live

\* C18 witness: a pass has painted decorations with the instance left by a
\* reload that new RegExp aborted, after decoration types of an earlier
\* instance were disposed.
C18_Witness ==
    /\ pc = "return"
    /\ \E i \in 1..Len(sink) : sink[i].list # <<>>
    /\ \E i \in 1..Len(instance.languages) :
           ~instance.languages[i].combinedCommentRegex.defined
    /\ Cardinality(live) < nextHandle - 1

\* C19: when findComments returns, the lastIndex of the comment regex it
\* used is 0; when findAnnotations returns, the lastIndex of the annotation
\* regex it used is 0; and no step of findAnnotations changes the comment
\* regex of the language being scanned.
C19_CursorReset ==
    [][/\ (pc = "findComments" /\ pc' = "decorate")
          => instance'.languages[langIdx].combinedCommentRegex.lastIndex = 0
       /\ (pc = "findAnnotations" /\ pc' = "findComments")
          => instance'.languages[langIdx].combinedAnnotationRegex.lastIndex = 0
       /\ pc = "findAnnotations"
          => instance'.languages[langIdx].combinedCommentRegex
             = instance.languages[langIdx].combinedCommentRegex]_vars

\* C19 witness: findComments has returned to decorate after calls of
\* findAnnotations that appended decorations while the cursor of the comment
\* regex was past 0, and every regex of the instance has lastIndex 0.
C19_Witness ==
    /\ pc = "decorate"
    /\ \E n \in 1..Len(pushed) : pushed[n].decoration.range.start > 0
    /\ \A i \in 1..Len(instance.languages) :
           /\ instance.languages[i].combinedCommentRegex.defined
           /\ instance.languages[i].combinedCommentRegex.lastIndex = 0
           /\ instance.languages[i].combinedAnnotationRegex.defined
           /\ instance.languages[i].combinedAnnotationRegex.lastIndex = 0

====
